---- MODULE Spec2Model ----
(***************************************************************************)
(* gm/ID sizing script (python_design/gm_id/gmid_nmos_diffpair_sizing.py): *)
(* the characterization-table parser get4d_array, the surface builders     *)
(* get_threed_individual / get_threed_combined, the interpn resampling     *)
(* calls and the sizing loop; and the table loader and derived metrics of  *)
(* python_design/gm_id/gmid_lookup_utils.py.                               *)
(*                                                                         *)
(* The table dimensions of the script (74 rows per length slice, 24 length *)
(* slices per parameter grid, 73 x 73 data entries per slice) are scaled   *)
(* to NRows, NSlices and NData = NRows - 1; every place where the script   *)
(* writes 74, 24 or 73 uses these names.                                   *)
(***************************************************************************)
EXTENDS Integers, Sequences, FiniteSets, TLC

(***************************************************************************)
(* Dimensions and bounds                                                   *)
(***************************************************************************)
\* rows of one length slice (74 in the script, line 59)
NRows == 3
\* length slices of one parameter grid (24 in the script, line 65)
NSlices == 2
\* data rows / columns of a slice once the label row and column are stripped
NData == NRows - 1
\* a line is a data row only with more than this many tokens (line 54)
MinTokens == 2
\* lines of an input file
MaxLines == 20
\* lines of an input file that differ from the line of a well-formed file
MaxEdits == 1

VARIABLES
    \* ---- get4d_array ----
    lines,          \* the input lines read so far (the argument `lines`)
    found, twod_counter, threed_counter, fourd_counter,
    fourd_array, threed_array, twod_array,
    pc,             \* "loop" | "returned" | "raised" | "called"
    exc,            \* the exception that ended the call, "none" if none
    \* ---- input generation ----
    edits,          \* lines so far that a well-formed file would not hold
    \* ---- get_threed_individual / get_threed_combined ----
    call,           \* the call made: function name and parameter indices
    surface,        \* what the call returned or raised
    \* ---- interpn ----
    i_axes,         \* the target axes <<i_lengths, i_VGS, i_VDS>>
    resampled,      \* what interpn returned or raised
    \* ---- one length solve (lines 223-241) ----
    allsegs,        \* cs2.allsegs[0]: the segments of the contour, each a
                    \* list of <<gm/gds, length>> points
    req,            \* gmgds1_req / gmgds3_req / gmgds5_req
    object_arrays,  \* whether this numpy builds an object array from
                    \* segments of different lengths (older releases) or
                    \* raises ValueError
    solved,         \* what the solve produced
    \* ---- the optimization loop (lines 188-340) ----
    x,              \* the loop variable of line 195
    cOTA,           \* the parasitic capacitance estimate, in pF
    gm_ids_1,       \* gm/ID required of M1, in units of 2*pi*gbw*1pF/ids1
    c_L_index_1, w1, cgdw1, cgsw1,          \* results of M1
    c_L_index3, gm_id3_final, w3, cddw3,    \* results of M3
    c_L_index5, gmid5_final, w5,            \* results of M5
    out,            \* what was printed, in order
    skipped,        \* the <<device, x>> whose contour was empty
    at_start,       \* cOTA and the device results as the current iteration
                    \* found them at line 196
    produced,       \* the iteration that last assigned gm_ids_1 and the
                    \* results of M1, M3 and M5
    cOTA_seq,       \* the values assigned to cOTA at line 295, in order
    outcome_of,     \* what the iterations that began with a value of cOTA
                    \* decided and assigned, by that value
    contour_of,     \* the technology: the contour found for <<device, level>>
    parasitic_of,   \* the technology: cddw3 + cgdw1 + cgsw1/2 found for
                    \* <<c_L_index_1, gm_ids_1, c_L_index3>>
    \* ---- gmid_lookup_utils.py ----
    file,           \* the rows of the .dat file, each a list of fields
    schema,         \* the schema argument: its columns, <<>> for None
    table,          \* what load_device_table returned or raised
    derived         \* what add_derived_gmid_metrics returned or raised

parseState == <<lines, found, twod_counter, threed_counter, fourd_counter,
                fourd_array, threed_array, twod_array, exc, edits>>
callState == <<call, surface>>
resampleState == <<i_axes, resampled>>
solveState == <<allsegs, req, object_arrays, solved>>
m1State == <<c_L_index_1, w1, cgdw1, cgsw1>>
m3State == <<c_L_index3, gm_id3_final, w3, cddw3>>
m5State == <<c_L_index5, gmid5_final, w5>>
techState == <<contour_of, parasitic_of>>
historyState == <<at_start, produced, cOTA_seq, outcome_of>>
loopState == <<x, cOTA, gm_ids_1, m1State, m3State, m5State, out, skipped, techState,
               historyState>>

lookupState == <<file, schema, table, derived>>

vars == <<parseState, pc, callState, resampleState, solveState, loopState, lookupState>>

(***************************************************************************)
(* Tokens of an input line, and the values the parser stores               *)
(***************************************************************************)
\* words of the files: 'length', a device-region label, a label with a digit
LengthWord == 0
RegionWord == 1
MixedWord == 2

Num(v) == [cls |-> "num", v |-> v]
Alpha(w) == [cls |-> "alpha", v |-> w]
Mixed(w) == [cls |-> "mixed", v |-> w]

\* str.isalpha(): every character is a letter
IsAlpha(tok) == tok.cls = "alpha"
\* float(x) raises ValueError unless x is a numeric literal
FloatRaises(tok) == tok.cls # "num"
\* a stored value: a float n/d (float(x) gives n/1), a float n/(2*pi*d), a
\* string, or the None that numpy's empty() puts in an object array
FloatOf(tok) == [t |-> "float", n |-> tok.v, d |-> 1]
StrOf(tok) == [t |-> "str", n |-> tok.v, d |-> 0]
NoneVal == [t |-> "None", n |-> 0, d |-> 0]

\* [float(x) if not x.isalpha() else x for x in vals]
RowRaises(vals) == \E k \in 1..Len(vals) : ~IsAlpha(vals[k]) /\ FloatRaises(vals[k])
float_vals(vals) ==
    [k \in 1..Len(vals) |-> IF ~IsAlpha(vals[k]) THEN FloatOf(vals[k]) ELSE StrOf(vals[k])]

\* list.insert(0, x) in the place of list.insert(i, x)
ListInsertFront(s, i, item) == <<item>> \o s

\* list.insert(i, item) for i >= 0: an index past the end appends
\* an insert past the end of the list that leaves the list as it is
ListInsertWithin(s, i, item) ==
    IF i > Len(s) THEN s
    ELSE SubSeq(s, 1, i) \o <<item>> \o SubSeq(s, i + 1, Len(s))

ListInsert(s, i, item) ==
    LET k == IF i > Len(s) THEN Len(s) ELSE i
    IN  SubSeq(s, 1, k) \o <<item>> \o SubSeq(s, k + 1, Len(s))

(***************************************************************************)
(* Input lines.  The n-th line of the file carries tokens whose numeric    *)
(* values are n * Stride + k, so that every numeric token of a file is     *)
(* distinct.                                                               *)
(***************************************************************************)
Stride == NRows + 2
BlockLen == NRows + 2

NumTokens(n, w) == [k \in 1..w |-> Num(n * Stride + (k - 1))]

Kinds ==
    {[k |-> "blank", w |-> 0]}
    \cup {[k |-> "sentinel", w |-> w] : w \in MinTokens..(MinTokens + 1)}
    \cup {[k |-> "short", w |-> w] : w \in 1..MinTokens}
    \cup {[k |-> "row", w |-> w] : w \in (MinTokens + 1)..(NRows + 1)}
    \cup {[k |-> "alpha", w |-> NRows], [k |-> "mixed", w |-> NRows]}

LineOf(kind, n) ==
    CASE kind.k = "blank" -> <<>>
      [] kind.k = "sentinel" -> <<Alpha(LengthWord)>> \o NumTokens(n, kind.w - 1)
      [] kind.k = "short" -> NumTokens(n, kind.w)
      [] kind.k = "row" -> NumTokens(n, kind.w)
      [] kind.k = "alpha" -> NumTokens(n, kind.w - 1) \o <<Alpha(RegionWord)>>
      [] kind.k = "mixed" -> NumTokens(n, kind.w - 1) \o <<Mixed(MixedWord)>>

\* the line a well-formed file holds after `ls`: a 'length' line opens a
\* block, NRows rows of NRows numeric tokens follow, a blank line closes it
BlockPos(ls) ==
    LET blanks == {i \in 1..Len(ls) : Len(ls[i]) = 0}
        last == IF blanks = {} THEN 0
                ELSE CHOOSE i \in blanks : \A j \in blanks : j <= i
    IN  Len(ls) - last

ExpectedKind(ls) ==
    LET p == BlockPos(ls)
    IN  IF p = 0 THEN [k |-> "sentinel", w |-> MinTokens]
        ELSE IF p <= NRows THEN [k |-> "row", w |-> NRows]
        ELSE [k |-> "blank", w |-> 0]

(***************************************************************************)
(* get4d_array: one pass of `for line in lines` (lines 45-72)              *)
(***************************************************************************)
\* a data row whatever came before it
is_data_row_anywhere(words, found_now) ==
    /\ words[1] # Alpha(LengthWord)
    /\ Len(words) > MinTokens

\* the elif of line 52 and the test of line 54, for a non-blank line
is_data_row(words, found_now) ==
    /\ words[1] # Alpha(LengthWord)
    /\ found_now = 1
    /\ Len(words) > MinTokens

get4d_array_line(line) ==
    LET words == line
    IN
    IF Len(words) = 0 THEN
        \* blank line: found = 0; continue
        /\ found' = 0
        /\ UNCHANGED <<twod_counter, threed_counter, fourd_counter,
                       fourd_array, threed_array, twod_array, pc, exc>>
    ELSE IF is_data_row(words, found) /\ RowRaises(words) THEN
        \* float(x) raises ValueError inside the list comprehension
        /\ pc' = "raised"
        /\ exc' = "ValueError"
        /\ UNCHANGED <<found, twod_counter, threed_counter, fourd_counter,
                       fourd_array, threed_array, twod_array>>
    ELSE
        LET isSentinel == words[1] = Alpha(LengthWord)
            found1 == IF isSentinel THEN 1 ELSE found
            accept == is_data_row(words, found)
            twod1 == IF accept THEN ListInsert(twod_array, twod_counter, float_vals(words))
                     ELSE twod_array
            tc1 == IF accept THEN twod_counter + 1 ELSE twod_counter
            \* if twod_counter == 74
            full2 == tc1 = NRows
            tc2 == IF full2 THEN 0 ELSE tc1
            threed2 == IF full2 THEN ListInsert(threed_array, threed_counter, twod1)
                       ELSE threed_array
            sc2 == IF full2 THEN threed_counter + 1 ELSE threed_counter
            twod2 == IF full2 THEN <<>> ELSE twod1
            \* if threed_counter == 24
            full3 == sc2 = NSlices
        IN
        /\ found' = found1
        /\ twod_counter' = IF full3 THEN 0 ELSE tc2
        /\ threed_counter' = IF full3 THEN 0 ELSE sc2
        /\ fourd_counter' = IF full3 THEN (fourd_counter + 1) + 1 ELSE fourd_counter
        /\ fourd_array' = IF full3 THEN ListInsert(fourd_array, fourd_counter + 1, threed2)
                          ELSE fourd_array
        /\ twod_array' = IF full3 THEN <<>> ELSE twod2
        /\ threed_array' = IF full3 THEN <<>> ELSE threed2
        /\ UNCHANGED <<pc, exc>>

\* the next line of the file is the one a well-formed file holds there
ReadExpected ==
    /\ pc = "loop"
    /\ Len(lines) < MaxLines
    /\ LET line == LineOf(ExpectedKind(lines), Len(lines) + 1)
       IN  /\ lines' = Append(lines, line)
           /\ get4d_array_line(line)
    /\ UNCHANGED <<edits, callState, resampleState, solveState, loopState, lookupState>>

\* the next line of the file is any other line
ReadOther ==
    /\ pc = "loop"
    /\ Len(lines) < MaxLines
    /\ edits < MaxEdits
    /\ \E kind \in Kinds \ {ExpectedKind(lines)} :
         LET line == LineOf(kind, Len(lines) + 1)
         IN  /\ lines' = Append(lines, line)
             /\ get4d_array_line(line)
    /\ edits' = edits + 1
    /\ UNCHANGED <<callState, resampleState, solveState, loopState, lookupState>>

\* end of input: return fourd_array (line 73)
get4d_array_return ==
    /\ pc = "loop"
    /\ pc' = "returned"
    /\ UNCHANGED <<parseState, callState, resampleState, solveState, loopState, lookupState>>

(***************************************************************************)
(* Python indexing and arithmetic on stored values                         *)
(***************************************************************************)
\* s[i] of a Python list: -len(s) <= i < len(s), a negative i counts from
\* the end, anything else raises IndexError
IndexOk(s, i) == -Len(s) <= i /\ i < Len(s)
PyIndex(s, i) == IF i < 0 THEN s[Len(s) + i + 1] ELSE s[i + 1]

\* pa[i][j][k] with i, j, k >= 0
HasCell(pa, i, j, k) ==
    /\ i < Len(pa)
    /\ j < Len(pa[i + 1])
    /\ k < Len(pa[i + 1][j + 1])
Cell(pa, i, j, k) == pa[i + 1][j + 1][k + 1]

RECURSIVE GCD(_, _)
GCD(a, b) == IF b = 0 THEN a ELSE GCD(b, a % b)

Ratio(n, d) ==
    LET g == GCD(n, d) IN [t |-> "float", n |-> n \div g, d |-> d \div g]

\* a / b on two stored values: [exc, val]
Returned(v) == [exc |-> "none", val |-> v]
Raised(e) == [exc |-> e, val |-> NoneVal]
TrueDiv(a, b) ==
    IF a.t # "float" \/ b.t # "float" THEN Raised("TypeError")
    ELSE IF b.n = 0 THEN Raised("ZeroDivisionError")
    ELSE Returned(Ratio(a.n * b.d, a.d * b.n))

\* a / (2 * pi * b)
TrueDivTwoPi(a, b) ==
    LET q == TrueDiv(a, b)
    IN  IF q.exc # "none" THEN q
        ELSE Returned([t |-> "float/2pi", n |-> q.val.n, d |-> q.val.d])

\* x == 0 on a stored value
IsZero(val) == val.t = "float" /\ val.n = 0

NoCall == [fn |-> "none", parameter1 |-> 0, parameter2 |-> 0]
NoResult == [exc |-> "none", val |-> <<>>]

\* no contour extracted yet; also what a solve leaves when the contour is
\* empty (lines 225, 270, 316)
NoSolution == [exc |-> "none", empty |-> TRUE, idx_closest |-> 0,
               L_solution |-> 0, c_L_index |-> 0]

NoSolve ==
    /\ allsegs = <<>>
    /\ req = 0
    /\ object_arrays = FALSE
    /\ solved = NoSolution

\* a name that is not bound yet: an index or a value of the technology
UnboundIndex == -1
Unbound == [f |-> "unbound", a |-> 0, b |-> 0, c |-> 0]

\* no device table loaded
NoTable == [exc |-> "none", columns |-> <<>>, rows |-> <<>>]
NoLookup ==
    /\ file = <<>>
    /\ schema = <<>>
    /\ table = NoTable
    /\ derived = NoTable

\* the module-level names of the loop before line 188
NoLoop ==
    /\ x = 0
    /\ cOTA = 0
    /\ gm_ids_1 = 0
    /\ c_L_index_1 = UnboundIndex
    /\ w1 = Unbound
    /\ cgdw1 = Unbound
    /\ cgsw1 = Unbound
    /\ c_L_index3 = UnboundIndex
    /\ gm_id3_final = Unbound
    /\ w3 = Unbound
    /\ cddw3 = Unbound
    /\ c_L_index5 = UnboundIndex
    /\ gmid5_final = Unbound
    /\ w5 = Unbound
    /\ out = <<>>
    /\ skipped = {}
    /\ at_start = <<>>
    /\ produced = [gm_ids_1 |-> UnboundIndex, M1 |-> UnboundIndex,
                   M3 |-> UnboundIndex, M5 |-> UnboundIndex]
    /\ cOTA_seq = <<>>
    /\ outcome_of = <<>>
    /\ contour_of = <<>>
    /\ parasitic_of = <<>>

(***************************************************************************)
(* get_threed_individual (lines 83-90)                                     *)
(***************************************************************************)
\* req_3d_individual[i][j - 1][k - 1] = ... falls outside the
\* empty((24, 73, 73)) array for some cell the loops visit
IndividualOutOfBounds(pa) ==
    \E i \in 0..(Len(pa) - 1) :
      \E j \in 1..(Len(pa[i + 1]) - 1) :
        \E k \in 1..(Len(pa[i + 1][j + 1]) - 1) :
          i >= NSlices \/ j - 1 >= NData \/ k - 1 >= NData

get_threed_individual(fourd_arr, parameter) ==
    IF ~IndexOk(fourd_arr, parameter) THEN [exc |-> "IndexError", val |-> <<>>]
    ELSE
        LET param_array == PyIndex(fourd_arr, parameter)
        IN  IF IndividualOutOfBounds(param_array)
            THEN [exc |-> "IndexError", val |-> <<>>]
            ELSE [exc |-> "none",
                  val |-> [i \in 1..NSlices |-> [j \in 1..NData |-> [k \in 1..NData |->
                             IF HasCell(param_array, i - 1, j, k)
                             THEN Cell(param_array, i - 1, j, k)
                             ELSE NoneVal]]]]

(***************************************************************************)
(* get_threed_combined (lines 92-134)                                      *)
(***************************************************************************)
\* the parameter indices the function tests for (lines 96 and 101)
GmParam == 0
IdsParam == 2
CggParam == 7
\* further indices the script passes (lines 175-176)
GdsParam == 1
WParam == 3

\* the statement of the innermost loop for one (i, j, k), lines 100-113
CombinedCell(param_array_1, param_array_2, parameter1, parameter2, i, j, k) ==
    IF ~HasCell(param_array_1, i, j, k) \/ ~HasCell(param_array_2, i, j, k)
    THEN Raised("IndexError")
    ELSE IF parameter1 = GmParam /\ parameter2 = CggParam
    THEN TrueDivTwoPi(Cell(param_array_1, i, j, k), Cell(param_array_2, i, j, k))
    ELSE IF parameter2 = IdsParam /\ IsZero(Cell(param_array_2, i, j, k))
    THEN IF ~HasCell(param_array_1, i, j, k + 1) \/ ~HasCell(param_array_2, i, j, k + 1)
         THEN Raised("IndexError")
         ELSE TrueDiv(Cell(param_array_1, i, j, k + 1), Cell(param_array_2, i, j, k + 1))
    ELSE TrueDiv(Cell(param_array_1, i, j, k), Cell(param_array_2, i, j, k))

\* the (i, j, k) the three nested loops visit, and their order
LoopCells == (0..(NSlices - 1)) \X (1..(NRows - 1)) \X (1..(NRows - 1))
LoopOrder(c) == (c[1] * NRows + c[2]) * NRows + c[3]

\* combined_arr[i][0] = vds_array broadcasts a list of 1 or 74 entries and
\* raises ValueError for any other; vgs_array[j] needs 74 entries
LabelExc(param_array_1) ==
    IF Len(param_array_1) = 0 \/ Len(param_array_1[1]) = 0 THEN "IndexError"
    ELSE LET vds_array == param_array_1[1][1]
             vgs_array == param_array_1[1][1]
         IN  IF Len(vds_array) \notin {1, NRows} THEN "ValueError"
             ELSE IF Len(vgs_array) < NRows THEN "IndexError"
             ELSE "none"

\* combined_arr after the label row and column are written (lines 114-128)
combined_arr(param_array_1, param_array_2, parameter1, parameter2) ==
    LET vds_array == param_array_1[1][1]
        vgs_array == param_array_1[1][1]
    IN  [i \in 1..NSlices |-> [j \in 1..NRows |-> [k \in 1..NRows |->
            IF k = 1 THEN vgs_array[j]
            ELSE IF j = 1 THEN vds_array[k]
            ELSE CombinedCell(param_array_1, param_array_2, parameter1, parameter2,
                              i - 1, j - 1, k - 1).val]]]

\* the copy without the shift by one: req_3d_combined[i][j][k] = combined_arr[i][j][k]
req_3d_combined_unshifted(arr) ==
    [i \in 1..NSlices |-> [j \in 1..NData |-> [k \in 1..NData |-> arr[i][j][k]]]]

\* req_3d_combined[i][j-1][k-1] = combined_arr[i][j][k] (lines 129-133)
req_3d_combined(arr) ==
    [i \in 1..NSlices |-> [j \in 1..NData |-> [k \in 1..NData |-> arr[i][j + 1][k + 1]]]]

get_threed_combined(fourd_arr, parameter1, parameter2) ==
    IF ~IndexOk(fourd_arr, parameter1) \/ ~IndexOk(fourd_arr, parameter2)
    THEN [exc |-> "IndexError", val |-> <<>>]
    ELSE
        LET param_array_1 == PyIndex(fourd_arr, parameter1)
            param_array_2 == PyIndex(fourd_arr, parameter2)
            failing == {c \in LoopCells :
                          CombinedCell(param_array_1, param_array_2, parameter1,
                                       parameter2, c[1], c[2], c[3]).exc # "none"}
        IN  IF failing # {}
            THEN LET c == CHOOSE f \in failing :
                            \A g \in failing : LoopOrder(f) <= LoopOrder(g)
                 IN  [exc |-> CombinedCell(param_array_1, param_array_2, parameter1,
                                           parameter2, c[1], c[2], c[3]).exc,
                      val |-> <<>>]
            ELSE IF LabelExc(param_array_1) # "none"
            THEN [exc |-> LabelExc(param_array_1), val |-> <<>>]
            ELSE [exc |-> "none",
                  val |-> req_3d_combined(combined_arr(param_array_1, param_array_2,
                                                       parameter1, parameter2))]

\* the parameter indices a call is made with: those the script passes or
\* tests for, the last grid counted from the end, and one index past each end
UsedParams == {GmParam, GdsParam, IdsParam, WParam, CggParam}
ParamIndices(fourd_arr) ==
    LET n == Len(fourd_arr)
    IN  (UsedParams \cup {-1, -(n + 1), n}) \cap ((-(n + 1))..n)

\* fourd_arr with the label row of the first slice of one grid emptied
label_row_taken(fourd_arr, parameter) ==
    IF IndexOk(fourd_arr, parameter) /\ HasCell(PyIndex(fourd_arr, parameter), 0, 0, 0)
    THEN LET g == IF parameter < 0 THEN Len(fourd_arr) + parameter + 1 ELSE parameter + 1
         IN  [fourd_arr EXCEPT ![g][1][1] = <<>>]
    ELSE fourd_arr

\* the caller's fourd_arr after a call that read grid `parameter`: the
\* functions work on deepcopy(fourd_arr[parameter]) (lines 84, 93, 94) and
\* assign only to the arrays they create (req_3d_individual, combined_arr,
\* req_3d_combined)
after_deepcopy(fourd_arr, parameter) == fourd_arr

tableCounters == <<lines, found, twod_counter, threed_counter, fourd_counter,
                   threed_array, twod_array, exc, edits>>

CallIndividual ==
    /\ pc \in {"returned", "called"}
    /\ \E parameter \in ParamIndices(fourd_array) :
         /\ call' = [fn |-> "individual", parameter1 |-> parameter, parameter2 |-> 0]
         /\ surface' = get_threed_individual(fourd_array, parameter)
         /\ fourd_array' = after_deepcopy(fourd_array, parameter)
    /\ pc' = "called"
    /\ UNCHANGED <<tableCounters, resampleState, solveState, loopState, lookupState>>

CallCombined ==
    /\ pc = "returned"
    /\ \E parameter1 \in ParamIndices(fourd_array), parameter2 \in ParamIndices(fourd_array) :
         /\ call' = [fn |-> "combined", parameter1 |-> parameter1, parameter2 |-> parameter2]
         /\ surface' = get_threed_combined(fourd_array, parameter1, parameter2)
         /\ fourd_array' = after_deepcopy(after_deepcopy(fourd_array, parameter1), parameter2)
    /\ pc' = "called"
    /\ UNCHANGED <<tableCounters, resampleState, solveState, loopState, lookupState>>

ParseInit ==
    /\ lines = <<>>
    /\ found = 0
    /\ twod_counter = 0
    /\ threed_counter = 0
    /\ fourd_counter = 0
    /\ fourd_array = <<>>
    /\ threed_array = <<>>
    /\ twod_array = <<>>
    /\ pc = "loop"
    /\ exc = "none"
    /\ edits = 0
    /\ call = NoCall
    /\ surface = NoResult
    /\ i_axes = <<>>
    /\ resampled = NoResult
    /\ NoSolve
    /\ NoLoop
    /\ NoLookup

ParseNext ==
    \/ ReadExpected
    \/ ReadOther
    \/ get4d_array_return
    \/ CallIndividual

SpecParse == ParseInit /\ [][ParseNext]_vars
(***************************************************************************)
(* Datasets for the surface builders: NParams grids of NSlices slices of   *)
(* NRows rows of NRows floats, all distinct and positive, except that the  *)
(* entries of one row of one slice of one grid the calls read may be 0.    *)
(***************************************************************************)
NParams == CggParam + 1

BaseVal(p, i, j, k) == 1 + k + NRows * (j + NRows * (i + NSlices * p))

Dataset(zp, zi, zj, Z) ==
    [p \in 1..NParams |-> [i \in 1..NSlices |-> [j \in 1..NRows |-> [k \in 1..NRows |->
        IF p = zp /\ i = zi /\ j = zj /\ k \in Z
        THEN FloatOf(Num(0))
        ELSE FloatOf(Num(BaseVal(p - 1, i - 1, j - 1, k - 1)))]]]]

SurfaceInit ==
    /\ lines = <<>>
    /\ found = 0
    /\ twod_counter = 0
    /\ threed_counter = 0
    /\ fourd_counter = 0
    /\ threed_array = <<>>
    /\ twod_array = <<>>
    /\ pc = "returned"
    /\ exc = "none"
    /\ edits = 0
    /\ call = NoCall
    /\ surface = NoResult
    /\ i_axes = <<>>
    /\ resampled = NoResult
    /\ NoSolve
    /\ NoLoop
    /\ NoLookup
    /\ \E zp \in UsedParams, zi \in 1..NSlices, zj \in 1..NRows, Z \in SUBSET (1..NRows) :
         fourd_array = Dataset(zp + 1, zi, zj, Z)

SurfaceNext ==
    \/ CallIndividual
    \/ CallCombined

SpecSurface == SurfaceInit /\ [][SurfaceNext]_vars
(***************************************************************************)
(* Resampling: interpn(points, values, xi, method='linear'), lines 163-185 *)
(* Lengths are in units of 25 nm.                                          *)
(***************************************************************************)
\* the 24 lengths of the characterization (lines 143-145), of which the
\* scaled tables hold the first NSlices
LengthsAll == <<8, 16, 24, 32, 40, 80, 120, 160, 200, 240, 280, 320, 360, 400,
                440, 480, 520, 560, 600, 640, 680, 720, 760, 800>>
lengths == SubSeq(LengthsAll, 1, NSlices)

\* N_4D_arr[0][0][:][0] is element 0 of a copy of the row list, and
\* N_4D_arr[0][0][0][:] a copy of element 0 of the row list: both are row 0
\* of the first slice of the first grid; [1:] drops its first entry
AxisOf(row) == [k \in 1..(Len(row) - 1) |-> row[k + 1].n]
VDS_ARRAY(N_4D_arr) == AxisOf(N_4D_arr[1][1][1])
VGS_ARRAY(N_4D_arr) == AxisOf(N_4D_arr[1][1][1])
points(N_4D_arr) == <<lengths, VGS_ARRAY(N_4D_arr), VDS_ARRAY(N_4D_arr)>>

StrictlyAscending(ax) == \A k \in 1..(Len(ax) - 1) : ax[k] < ax[k + 1]
InBounds(ax, xi) == ax[1] <= xi /\ xi <= ax[Len(ax)]

\* the grid interval of ax that holds xi, for xi within bounds
Interval(ax, xi) ==
    LET below == {k \in 1..(Len(ax) - 1) : ax[k] <= xi}
    IN  CHOOSE k \in below : \A m \in below : m <= k

RAdd(a, b) == Ratio(a.n * b.d + b.n * a.d, a.d * b.d)
RScale(a, w) == Ratio(a.n * w, a.d)
RECURSIVE RSum(_)
RSum(seq) == IF seq = <<>> THEN Ratio(0, 1) ELSE RAdd(Head(seq), RSum(Tail(seq)))

\* trilinear interpolation of values at (x1, x2, x3): the corner values
\* weighted by the distances to the opposite faces of the grid cell
Linear(pts, values, x1, x2, x3) ==
    LET i1 == Interval(pts[1], x1)
        i2 == Interval(pts[2], x2)
        i3 == Interval(pts[3], x3)
        W(ax, i, xi, e) == IF e = 0 THEN ax[i + 1] - xi ELSE xi - ax[i]
        span == (pts[1][i1 + 1] - pts[1][i1]) * (pts[2][i2 + 1] - pts[2][i2])
                * (pts[3][i3 + 1] - pts[3][i3])
        corners == <<<<0, 0, 0>>, <<0, 0, 1>>, <<0, 1, 0>>, <<0, 1, 1>>,
                     <<1, 0, 0>>, <<1, 0, 1>>, <<1, 1, 0>>, <<1, 1, 1>>>>
        term(c) == RScale(values[i1 + c[1]][i2 + c[2]][i3 + c[3]],
                          W(pts[1], i1, x1, c[1]) * W(pts[2], i2, x2, c[2])
                          * W(pts[3], i3, x3, c[3]))
        total == RSum([m \in 1..8 |-> term(corners[m])])
    IN  Ratio(total.n, total.d * span)

\* interpn with the default bounds_error=True: ValueError for an axis that
\* does not match the values or is not strictly ascending, and for any
\* requested point outside the grid
interpn(pts, values, axes) ==
    IF \/ Len(values) # Len(pts[1])
       \/ \E i \in 1..Len(values) :
            \/ Len(values[i]) # Len(pts[2])
            \/ \E j \in 1..Len(values[i]) : Len(values[i][j]) # Len(pts[3])
    THEN [exc |-> "ValueError", val |-> <<>>]
    ELSE IF \E d \in 1..3 : ~StrictlyAscending(pts[d])
    THEN [exc |-> "ValueError", val |-> <<>>]
    ELSE IF \E d \in 1..3 : \E m \in 1..Len(axes[d]) : ~InBounds(pts[d], axes[d][m])
    THEN [exc |-> "ValueError", val |-> <<>>]
    ELSE [exc |-> "none",
          val |-> [a \in 1..Len(axes[1]) |-> [b \in 1..Len(axes[2]) |->
                    [c \in 1..Len(axes[3]) |->
                       Linear(pts, values, axes[1][a], axes[2][b], axes[3][c])]]]]

\* i_X = interpn(points, get_threed_combined(N_4D_arr, p1, p2), xi, ...), for
\* the pairs of lines 174-176, and with get_threed_individual, lines 179-180
ResampleCombined ==
    /\ pc = "returned"
    /\ \E pair \in {<<GmParam, IdsParam>>, <<GmParam, GdsParam>>, <<IdsParam, WParam>>} :
         /\ call' = [fn |-> "combined", parameter1 |-> pair[1], parameter2 |-> pair[2]]
         /\ surface' = get_threed_combined(fourd_array, pair[1], pair[2])
    /\ resampled' = IF surface'.exc # "none" THEN surface'
                    ELSE interpn(points(fourd_array), surface'.val, i_axes)
    /\ pc' = "resampled"
    /\ UNCHANGED <<parseState, i_axes, solveState, loopState, lookupState>>

VdsatParam == 4
VthParam == 5
ResampleIndividual ==
    /\ pc = "returned"
    /\ \E parameter \in {VdsatParam, VthParam} :
         /\ call' = [fn |-> "individual", parameter1 |-> parameter, parameter2 |-> 0]
         /\ surface' = get_threed_individual(fourd_array, parameter)
    /\ resampled' = IF surface'.exc # "none" THEN surface'
                    ELSE interpn(points(fourd_array), surface'.val, i_axes)
    /\ pc' = "resampled"
    /\ UNCHANGED <<parseState, i_axes, solveState, loopState, lookupState>>

\* target axes of two points each, from one step below the source axis to
\* one step above it
TargetAxes(ax) ==
    LET lo == ax[1]
        hi == ax[Len(ax)]
        mid == (lo + hi) \div 2
        cand == {lo - 1, lo, mid, hi, hi + 1}
    IN  {<<a, b>> : a \in cand, b \in cand} \cap {t \in cand \X cand : t[1] < t[2]}

ResampleInit ==
    /\ lines = <<>>
    /\ found = 0
    /\ twod_counter = 0
    /\ threed_counter = 0
    /\ fourd_counter = 0
    /\ threed_array = <<>>
    /\ twod_array = <<>>
    /\ pc = "returned"
    /\ exc = "none"
    /\ edits = 0
    /\ call = NoCall
    /\ surface = NoResult
    /\ resampled = NoResult
    /\ NoSolve
    /\ NoLoop
    /\ NoLookup
    /\ fourd_array = Dataset(1, 1, 1, {})
    /\ \E tl \in TargetAxes(lengths),
          tg \in TargetAxes(VGS_ARRAY(fourd_array)),
          td \in TargetAxes(VDS_ARRAY(fourd_array)) :
         i_axes = <<tl, tg, td>>

ResampleNext ==
    \/ ResampleCombined
    \/ ResampleIndividual

SpecResample == ResampleInit /\ [][ResampleNext]_vars

(***************************************************************************)
(* One length solve: closest contour point and snap to i_lengths, as in    *)
(* lines 225-241 (M1), 270-279 (M3) and 316-325 (M5)                       *)
(***************************************************************************)
\* i_lengths (lines 152-157), in units of 25 nm
i_lengths == <<8, 10, 12, 14, 16, 18, 20, 22, 24, 26, 28, 30, 32, 34, 36, 38, 40,
               60, 80, 100, 120, 140, 160, 180, 200, 220, 240, 260, 280, 300,
               320, 340, 360, 380, 400,
               440, 480, 520, 560, 600, 640, 680, 720, 760, 800>>

Abs(v) == IF v < 0 THEN -v ELSE v

\* numpy argmin of a sequence of numbers: the first index (from 0) that
\* holds the minimum
ArgMin(dist) ==
    (CHOOSE k \in 1..Len(dist) :
        /\ \A m \in 1..Len(dist) : dist[k] <= dist[m]
        /\ \A m \in 1..(k - 1) : dist[m] > dist[k]) - 1

\* the last index that holds the minimum
ArgMinLast(dist) ==
    (CHOOSE k \in 1..Len(dist) :
        /\ \A m \in 1..Len(dist) : dist[k] <= dist[m]
        /\ \A m \in (k + 1)..Len(dist) : dist[m] > dist[k]) - 1

\* (abs(array(i_lengths) - L_solution)).argmin()
snap_to_grid_last(L_solution) ==
    ArgMinLast([k \in 1..Len(i_lengths) |-> Abs(i_lengths[k] - L_solution)])
snap_to_grid(L_solution) ==
    ArgMin([k \in 1..Len(i_lengths) |-> Abs(i_lengths[k] - L_solution)])

SolveRaised(e) == [exc |-> e, empty |-> FALSE, idx_closest |-> 0,
                   L_solution |-> 0, c_L_index |-> 0]

\* gmgds_array, L_array = the columns of a list of points; idx_closest;
\* L_solution; c_L_index
closest_point(pts, gmgds_req) ==
    LET gmgds_array == [m \in 1..Len(pts) |-> pts[m][1]]
        L_array == [m \in 1..Len(pts) |-> pts[m][2]]
        idx_closest == ArgMin([m \in 1..Len(pts) |-> Abs(gmgds_array[m] - gmgds_req)])
        L_solution == L_array[idx_closest + 1]
    IN  [exc |-> "none", empty |-> FALSE, idx_closest |-> idx_closest,
         L_solution |-> L_solution, c_L_index |-> snap_to_grid(L_solution)]

\* several segments of two or more points each, all of one length: squeeze
\* leaves a 3-d array, [:, 0] holds the first point of every segment and
\* [:, 1] the second; argmin runs over the flattened first points, and
\* L_array[idx_closest] is a whole point (then the subtraction from
\* i_lengths raises ValueError) or lies past the end (IndexError)
stacked_segments(segs, gmgds_req) ==
    LET flat == [m \in 1..(2 * Len(segs)) |->
                    segs[(m + 1) \div 2][1][IF m % 2 = 1 THEN 1 ELSE 2]]
        idx_closest == ArgMin([m \in 1..Len(flat) |-> Abs(flat[m] - gmgds_req)])
    IN  IF idx_closest >= Len(segs) THEN SolveRaised("IndexError")
        ELSE SolveRaised("ValueError")

\* segments of different lengths in an object array: ndim is 1, the first
\* segment is taken for gmgds_array and the second for L_array
ragged_segments(segs, gmgds_req) ==
    LET first == segs[1]
        flat == [m \in 1..(2 * Len(first)) |->
                    first[(m + 1) \div 2][IF m % 2 = 1 THEN 1 ELSE 2]]
        idx_closest == ArgMin([m \in 1..Len(flat) |-> Abs(flat[m] - gmgds_req)])
    IN  IF idx_closest >= 1 THEN SolveRaised("IndexError")
        ELSE SolveRaised("ValueError")

solve_length(segs, gmgds_req, objarr) ==
    IF Len(segs) = 0 THEN NoSolution
    ELSE IF \E m \in 1..Len(segs) : Len(segs[m]) # Len(segs[1])
    THEN IF objarr THEN ragged_segments(segs, gmgds_req) ELSE SolveRaised("ValueError")
    ELSE IF Len(segs) = 1 THEN closest_point(segs[1], gmgds_req)
    ELSE IF Len(segs[1]) = 1
    THEN closest_point([m \in 1..Len(segs) |-> segs[m][1]], gmgds_req)
    ELSE stacked_segments(segs, gmgds_req)

\* the gm/gds requirements of M1, M3 and M5 (lines 202, 256, 302)
gmgds1_req == 200
gmgds3_req == 150
gmgds5_req == 60

\* longest length of a contour point, in units of 25 nm
MaxLength == 810
\* points of a contour
MaxPoints == 3

\* contours: one point of any length, or up to MaxPoints points taken from
\* three (one unit below the requirement, one above, two above, at lengths
\* on a grid value, midway between two and off the grid), cut into segments
PointPool(r) == {<<r - 1, 60>>, <<r + 1, 9>>, <<r + 2, 801>>}
RECURSIVE Cuts(_)
Cuts(pts) ==
    IF Len(pts) = 0 THEN {<<>>}
    ELSE UNION {{<<SubSeq(pts, 1, h)>> \o rest : rest \in Cuts(SubSeq(pts, h + 1, Len(pts)))}
                : h \in 1..Len(pts)}
Contours(r) ==
    {<<<<<<r + dx, L>>>>>> : dx \in {-1, 0, 1}, L \in 0..MaxLength}
    \cup UNION {Cuts(pts) : pts \in UNION {[1..n -> PointPool(r)] : n \in 0..MaxPoints}}

SolveInit ==
    /\ lines = <<>>
    /\ found = 0
    /\ twod_counter = 0
    /\ threed_counter = 0
    /\ fourd_counter = 0
    /\ fourd_array = <<>>
    /\ threed_array = <<>>
    /\ twod_array = <<>>
    /\ pc = "contour"
    /\ exc = "none"
    /\ edits = 0
    /\ call = NoCall
    /\ surface = NoResult
    /\ i_axes = <<>>
    /\ resampled = NoResult
    /\ req \in {gmgds1_req, gmgds3_req, gmgds5_req}
    /\ allsegs \in Contours(req)
    /\ object_arrays \in BOOLEAN
    /\ solved = NoSolution
    /\ NoLoop
    /\ NoLookup

Solve ==
    /\ pc = "contour"
    /\ solved' = solve_length(allsegs, req, object_arrays)
    /\ pc' = "solved"
    /\ UNCHANGED <<parseState, callState, resampleState, allsegs, req, object_arrays, loopState, lookupState>>

SolveNext == Solve

SpecSolve == SolveInit /\ [][SolveNext]_vars

(***************************************************************************)
(* The optimization loop (lines 188-340).  What the technology tables      *)
(* give is not computed: a contour is a function of the device and of the  *)
(* level asked for, a parasitic sum is a function of the operating point,  *)
(* and both are fixed the first time they are asked for.  The other        *)
(* results are carried as the name of the quantity and the arguments it    *)
(* was computed from.                                                      *)
(***************************************************************************)
tableState == <<lines, found, twod_counter, threed_counter, fourd_counter,
                fourd_array, threed_array, twod_array, edits>>

\* range(0, 20)
NIter == 20
\* cL = 5e-12, in pF
cL == 5
gm_ids_3 == 15
\* largest parasitic sum, in pF
MaxCota == 2

Tech(name, a, b, c) == [f |-> name, a |-> a, b |-> b, c |-> c]
Printed(tag, a, b, c) == [tag |-> tag, a |-> a, b |-> b, c |-> c]

\* contours of the loop: none; one point on the requirement; one segment of
\* two points; two segments of two points
LoopContours(r) ==
    {<<>>,
     <<<<<<r, 60>>>>>>,
     <<<<<<r + 2, 801>>, <<r + 1, 9>>>>>>,
     <<<<<<r - 1, 60>>, <<r + 1, 9>>>>, <<<<r + 2, 801>>, <<r - 1, 60>>>>>>}

Extend(f, key, val) == [k \in DOMAIN f \cup {key} |-> IF k = key THEN val ELSE f[k]]

\* a contour that, in the first iteration, may differ from the one of the
\* later iterations at the same level
contour_first_differs(device, level, r, segs) ==
    /\ segs \in LoopContours(r)
    /\ IF x = 0
       THEN contour_of' = contour_of
       ELSE /\ <<device, level>> \in DOMAIN contour_of => segs = contour_of[<<device, level>>]
            /\ contour_of' = Extend(contour_of, <<device, level>>, segs)

\* cs2 = contour(..., [level]); cs2.allsegs[0]: the tables, the window and
\* the fixed VDS do not change during the loop, so the contour depends on
\* the device and the level only
contour(device, level, r, segs) ==
    /\ segs \in LoopContours(r)
    /\ <<device, level>> \in DOMAIN contour_of => segs = contour_of[<<device, level>>]
    /\ contour_of' = Extend(contour_of, <<device, level>>, segs)

\* a parasitic sum that may differ between two evaluations at the same
\* operating point
parasitic_any(key, c) ==
    /\ c \in 0..MaxCota
    /\ parasitic_of' = Extend(parasitic_of, key, c)

\* cddw3 + cgdw1 + (cgsw1/2): interpolants of fixed tables evaluated at the
\* operating point
parasitic(key, c) ==
    /\ c \in 0..MaxCota
    /\ key \in DOMAIN parasitic_of => c = parasitic_of[key]
    /\ parasitic_of' = Extend(parasitic_of, key, c)

\* the operating point read with the M1 results the iteration started with
cOTA_operands_carried(L3) == <<at_start[3], at_start[2], L3>>

\* what line 295 reads: cgdw1 and cgsw1 (from c_L_index_1 and gm_ids_1) and
\* cddw3 (from the M3 length index, c_L_index_1 and gm_ids_1)
cOTA_operands(L3) == <<c_L_index_1, gm_ids_1, L3>>

\* cOTA and every device result
Results == <<cOTA, gm_ids_1, c_L_index_1, w1, cgdw1, cgsw1,
             c_L_index3, gm_id3_final, w3, cddw3, c_L_index5, gmid5_final, w5>>

\* the M1 results the iteration started with
vdsat5_operands_carried == <<at_start[3], at_start[2]>>

\* what lines 327-328 read: the row c_L_index_1 of i_N_GM_IDS and gm_ids_1
vdsat5_operands == <<c_L_index_1, gm_ids_1>>

\* what iteration xi decided and assigned: the solves that found nothing,
\* the exception if one ended it, and the new value of every variable it
\* assigned (res is Results)
Outcome(xi, prod, res, skp, e) ==
    [gm_ids_1 |-> IF prod.gm_ids_1 = xi THEN <<res[2]>> ELSE <<>>,
     M1 |-> IF prod.M1 = xi THEN SubSeq(res, 3, 6) ELSE <<>>,
     M3 |-> IF prod.M3 = xi THEN <<res[1]>> \o SubSeq(res, 7, 10) ELSE <<>>,
     M5 |-> IF prod.M5 = xi THEN SubSeq(res, 11, 13) ELSE <<>>,
     skipped |-> {t[1] : t \in {s \in skp : s[2] = xi}},
     exc |-> e]

\* at the end of an iteration, its outcome is added to those of the
\* iterations that began with the same cOTA
record_outcome ==
    outcome_of' =
        IF pc' \in {"M3", "M5"} THEN outcome_of
        ELSE LET c == at_start'[1]
                 seen == IF c \in DOMAIN outcome_of THEN outcome_of[c] ELSE {}
             IN  Extend(outcome_of, c,
                        seen \cup {Outcome(x, produced', Results', skipped', exc')})

\* continue: the next value of range(0, 20), or the end of the loop
continue ==
    /\ x' = x + 1
    /\ pc' = IF x + 1 < NIter THEN "M1" ELSE "report"

\* an exception of the solve ends the script
traceback(e) ==
    /\ pc' = "raised"
    /\ exc' = e
    /\ UNCHANGED x

\* lines 196-252
M1_Sizing ==
    /\ pc = "M1"
    /\ at_start' = Results
    /\ gm_ids_1' = cL + cOTA
    /\ \E segs \in LoopContours(gmgds1_req) :
         /\ contour("M1", cL + cOTA, gmgds1_req, segs)
         /\ allsegs' = segs
         /\ req' = gmgds1_req
         /\ solved' = solve_length(segs, gmgds1_req, object_arrays)
    /\ IF solved'.empty
       THEN /\ out' = Append(out, Printed("Warning: No solution found for M1 at iteration",
                                          x, Unbound, Unbound))
            /\ skipped' = skipped \cup {<<"M1", x>>}
            /\ continue
            /\ produced' = [produced EXCEPT !.gm_ids_1 = x]
            /\ UNCHANGED <<m1State, exc>>
       ELSE IF solved'.exc # "none"
       THEN /\ traceback(solved'.exc)
            /\ produced' = [produced EXCEPT !.gm_ids_1 = x]
            /\ UNCHANGED <<m1State, out, skipped>>
       ELSE /\ c_L_index_1' = solved'.c_L_index
            /\ produced' = [produced EXCEPT !.gm_ids_1 = x, !.M1 = x]
            /\ w1' = Tech("w1", solved'.c_L_index, cL + cOTA, UnboundIndex)
            /\ cgdw1' = Tech("cgdw1", solved'.c_L_index, cL + cOTA, UnboundIndex)
            /\ cgsw1' = Tech("cgsw1", solved'.c_L_index, cL + cOTA, UnboundIndex)
            /\ pc' = "M3"
            /\ UNCHANGED <<x, out, skipped, exc>>
    /\ UNCHANGED <<tableState, callState, resampleState, lookupState, object_arrays, cOTA,
                   m3State, m5State, parasitic_of, cOTA_seq>>
    /\ record_outcome

\* an M3 length solve at the level of M1
m3_solve_inputs_of_m1 == [gmgds_req |-> gmgds3_req, level |-> gm_ids_1]

\* the inputs of the M3 length solve: the requirement of line 256 (window
\* of line 257, target of line 277) and the contour level of line 268
m3_solve_inputs == [gmgds_req |-> gmgds3_req, level |-> gm_ids_3]

\* lines 254-295
M3_Sizing ==
    /\ pc = "M3"
    /\ \E segs \in LoopContours(m3_solve_inputs.gmgds_req) :
         /\ contour("M3", m3_solve_inputs.level, m3_solve_inputs.gmgds_req, segs)
         /\ allsegs' = segs
         /\ req' = m3_solve_inputs.gmgds_req
         /\ solved' = solve_length(segs, m3_solve_inputs.gmgds_req, object_arrays)
    /\ IF solved'.empty
       THEN /\ skipped' = skipped \cup {<<"M3", x>>}
            /\ continue
            /\ UNCHANGED <<m3State, cOTA, parasitic_of, exc, produced, cOTA_seq>>
       ELSE IF solved'.exc # "none"
       THEN /\ traceback(solved'.exc)
            /\ UNCHANGED <<m3State, cOTA, parasitic_of, skipped, produced, cOTA_seq>>
       ELSE /\ c_L_index3' = solved'.c_L_index
            /\ gm_id3_final' = Tech("gm_id3_final", solved'.c_L_index, c_L_index_1, gm_ids_1)
            /\ w3' = Tech("w3", solved'.c_L_index, c_L_index_1, gm_ids_1)
            /\ cddw3' = Tech("cddw3", solved'.c_L_index, c_L_index_1, gm_ids_1)
            /\ \E c \in 0..MaxCota :
                 /\ parasitic(cOTA_operands(solved'.c_L_index), c)
                 /\ cOTA' = c
                 /\ cOTA_seq' = Append(cOTA_seq, c)
            /\ produced' = [produced EXCEPT !.M3 = x]
            /\ pc' = "M5"
            /\ UNCHANGED <<x, skipped, exc>>
    /\ UNCHANGED <<tableState, callState, resampleState, lookupState, object_arrays, gm_ids_1,
                   m1State, m5State, out, at_start>>
    /\ record_outcome

\* the inputs of the M5 length solve: the requirement of line 302, which
\* centres the window of line 303 and is the target of line 323, and the
\* contour level of line 314; gm5, gm3, gds5 and gm_gds5 (lines 298-301)
\* are not read again
m5_solve_inputs == [gmgds_req |-> gmgds5_req, level |-> gm_ids_3]

\* lines 297-335
M5_Sizing ==
    /\ pc = "M5"
    /\ \E segs \in LoopContours(m5_solve_inputs.gmgds_req) :
         /\ contour("M5", m5_solve_inputs.level, m5_solve_inputs.gmgds_req, segs)
         /\ allsegs' = segs
         /\ req' = m5_solve_inputs.gmgds_req
         /\ solved' = solve_length(segs, m5_solve_inputs.gmgds_req, object_arrays)
    /\ IF solved'.empty
       THEN /\ skipped' = skipped \cup {<<"M5", x>>}
            /\ continue
            /\ UNCHANGED <<m5State, exc, produced>>
       ELSE IF solved'.exc # "none"
       THEN /\ traceback(solved'.exc)
            /\ UNCHANGED <<m5State, skipped, produced>>
       ELSE /\ c_L_index5' = solved'.c_L_index
            /\ gmid5_final' = Tech("gmid5_final", solved'.c_L_index,
                                   vdsat5_operands[1], vdsat5_operands[2])
            /\ w5' = Tech("w5", solved'.c_L_index, vdsat5_operands[1], vdsat5_operands[2])
            /\ produced' = [produced EXCEPT !.M5 = x]
            /\ continue
            /\ UNCHANGED <<skipped, exc>>
    /\ UNCHANGED <<tableState, callState, resampleState, lookupState, object_arrays, cOTA, gm_ids_1,
                   m1State, m3State, out, parasitic_of, at_start, cOTA_seq>>
    /\ record_outcome

\* lines 337-340: the prints up to the first name that is not bound
Report ==
    /\ pc = "report"
    /\ LET L1 == Printed("L1", i_lengths[c_L_index_1 + 1], w1, Unbound)
           L3 == Printed("L3", i_lengths[c_L_index3 + 1], w3, Unbound)
           L5 == Printed("L5", i_lengths[c_L_index5 + 1], w5, Unbound)
           targets == Printed("Gm/Id targets", gm_ids_1, gm_id3_final, gmid5_final)
       IN  IF c_L_index_1 = UnboundIndex
           THEN /\ out' = out
                /\ traceback("NameError")
           ELSE IF c_L_index3 = UnboundIndex
           THEN /\ out' = out \o <<L1>>
                /\ traceback("NameError")
           ELSE IF c_L_index5 = UnboundIndex
           THEN /\ out' = out \o <<L1, L3>>
                /\ traceback("NameError")
           ELSE /\ out' = out \o <<L1, L3, L5, targets>>
                /\ pc' = "reported"
                /\ UNCHANGED <<x, exc>>
    /\ UNCHANGED <<tableState, callState, resampleState, lookupState, solveState, cOTA, gm_ids_1,
                   m1State, m3State, m5State, skipped, techState, historyState>>

LoopInit ==
    /\ lines = <<>>
    /\ found = 0
    /\ twod_counter = 0
    /\ threed_counter = 0
    /\ fourd_counter = 0
    /\ fourd_array = <<>>
    /\ threed_array = <<>>
    /\ twod_array = <<>>
    /\ pc = "M1"
    /\ exc = "none"
    /\ edits = 0
    /\ call = NoCall
    /\ surface = NoResult
    /\ i_axes = <<>>
    /\ resampled = NoResult
    /\ allsegs = <<>>
    /\ req = 0
    /\ object_arrays \in BOOLEAN
    /\ solved = NoSolution
    /\ NoLoop
    /\ NoLookup

LoopNext ==
    \/ M1_Sizing
    \/ M3_Sizing
    \/ M5_Sizing
    \/ Report

SpecLoop == LoopInit /\ [][LoopNext]_vars

(***************************************************************************)
(* gmid_lookup_utils.py: load_device_table and add_derived_gmid_metrics.   *)
(* A file is a list of rows and a row a list of fields; a data frame is    *)
(* its column names and its rows, each with the index label pandas gave it *)
(* (the number of the row in the file, from 0).                            *)
(***************************************************************************)
SCHEMA_WITH_CGG == <<"vgs", "id", "gm", "gds", "region", "vdsat", "cgg">>
SCHEMA_NO_CGG == <<"vgs", "id", "gm", "gds", "region", "vdsat">>
\* schema=None
NoSchema == <<>>
\* schemas a caller may build: six columns without gds, five columns
SchemaNoGds == <<"vgs", "id", "gm", "ro", "region", "vdsat">>
SchemaShort == <<"vgs", "id", "gm", "gds", "region">>
Schemas == {NoSchema, SCHEMA_WITH_CGG, SCHEMA_NO_CGG, SchemaNoGds, SchemaShort}

\* rows of a file
MaxFileRows == 2
\* fields of the first row of a file
FileWidths == 5..8

NaN == [t |-> "nan", n |-> 0, d |-> 1]
Inf == [t |-> "inf", n |-> 0, d |-> 1]
Missing == [cls |-> "missing", v |-> 0]

\* row r of a file: w fields, numeric but for the field `bad` (a word) and,
\* when zero is set, a 0 in the second field
FileRow(r, w, bad, zero) ==
    [c \in 1..w |-> IF c = bad THEN Alpha(RegionWord)
                    ELSE IF c = 2 /\ zero THEN Num(0)
                    ELSE Num(10 * r + c)]

RowShapes == {-1, 0, 1} \X {0, 1, 2} \X BOOLEAN
Files ==
    {<<>>} \cup
    UNION {{[r \in 1..n |->
                LET w == IF r = 1 THEN wfirst ELSE wfirst + d[r][1]
                    bad == IF d[r][2] = 0 THEN 0 ELSE IF d[r][2] = 1 THEN 2 ELSE w
                IN  FileRow(r, w, bad, d[r][3])]
            : d \in [1..n -> RowShapes]}
           : n \in 1..MaxFileRows, wfirst \in FileWidths}

Frame(columns, rows) == [exc |-> "none", columns |-> columns, rows |-> rows]
FrameRaised(e) == [exc |-> e, columns |-> <<>>, rows |-> <<>>]
\* pandas.errors.EmptyDataError and ParserError are subclasses of ValueError
IsValueError(e) == e \in {"ValueError", "EmptyDataError", "ParserError"}

\* pd.read_csv(filepath, delim_whitespace=True, header=None): the first row
\* gives the number of columns, a shorter row is filled with missing
\* fields, a longer row is an error; the columns are numbered
read_csv(f) ==
    IF Len(f) = 0 THEN FrameRaised("EmptyDataError")
    ELSE IF \E r \in 1..Len(f) : Len(f[r]) > Len(f[1]) THEN FrameRaised("ParserError")
    ELSE Frame([c \in 1..Len(f[1]) |-> ""],
               [r \in 1..Len(f) |->
                  [index |-> r - 1,
                   vals |-> [c \in 1..Len(f[1]) |->
                               IF c <= Len(f[r]) THEN f[r][c] ELSE Missing]]])

\* pd.to_numeric(..., errors="coerce")
to_numeric(field) == IF field.cls = "num" THEN FloatOf(field) ELSE NaN

IsNaN(val) == val.t = "nan"

\* dropna(how="all"): only the rows without any value go
dropna_how_all(rows) ==
    LET Some(row) == \E c \in 1..Len(row.vals) : ~IsNaN(row.vals[c])
    IN  SelectSeq(rows, Some)

\* df.dropna(inplace=True)
dropna(rows) ==
    LET Full(row) == \A c \in 1..Len(row.vals) : ~IsNaN(row.vals[c])
    IN  SelectSeq(rows, Full)

load_device_table(filepath, schema_arg) ==
    LET df == read_csv(filepath)
        ncols == Len(df.columns)
        inferred == IF schema_arg # NoSchema THEN schema_arg
                    ELSE IF ncols = 7 THEN SCHEMA_WITH_CGG
                    ELSE IF ncols = 6 THEN SCHEMA_NO_CGG
                    ELSE NoSchema
    IN  IF df.exc # "none" THEN df
        ELSE IF inferred = NoSchema THEN FrameRaised("ValueError")
        ELSE IF ncols # Len(inferred) THEN FrameRaised("ValueError")
        ELSE Frame(inferred,
                   dropna([r \in 1..Len(df.rows) |->
                             [index |-> df.rows[r].index,
                              vals |-> [c \in 1..ncols |-> to_numeric(df.rows[r].vals[c])]]]))

ColumnNames(df) == {df.columns[c] : c \in 1..Len(df.columns)}
ColumnOf(df, name) == CHOOSE c \in 1..Len(df.columns) : df.columns[c] = name

\* a Series divided by a Series, row by row
SeriesDiv(a, b) ==
    IF IsNaN(a) \/ IsNaN(b) THEN NaN
    ELSE IF b.n = 0 THEN (IF a.n = 0 THEN NaN ELSE Inf)
    ELSE Ratio(a.n * b.d, a.d * b.n)

\* every row kept
all_rows(df) == df.rows

\* df2[df2["id"] != 0]
id_nonzero(df) ==
    LET NonZero(row) == ~IsZero(row.vals[ColumnOf(df, "id")])
    IN  SelectSeq(df.rows, NonZero)

add_derived_gmid_metrics(df) ==
    IF ~({"gm", "gds", "id"} \subseteq ColumnNames(df)) THEN FrameRaised("ValueError")
    ELSE LET df2 == id_nonzero(df)
             Of(row, name) == row.vals[ColumnOf(df, name)]
         IN  Frame(df.columns \o <<"gm_id", "gds_id">>,
                   [r \in 1..Len(df2) |->
                      [index |-> df2[r].index,
                       vals |-> df2[r].vals \o
                                <<SeriesDiv(Of(df2[r], "gm"), Of(df2[r], "id")),
                                  SeriesDiv(Of(df2[r], "gds"), Of(df2[r], "id"))>>]])

LookupInit ==
    /\ lines = <<>>
    /\ found = 0
    /\ twod_counter = 0
    /\ threed_counter = 0
    /\ fourd_counter = 0
    /\ fourd_array = <<>>
    /\ threed_array = <<>>
    /\ twod_array = <<>>
    /\ pc = "file"
    /\ exc = "none"
    /\ edits = 0
    /\ call = NoCall
    /\ surface = NoResult
    /\ i_axes = <<>>
    /\ resampled = NoResult
    /\ NoSolve
    /\ NoLoop
    /\ file \in Files
    /\ schema \in Schemas
    /\ table = NoTable
    /\ derived = NoTable

LoadDeviceTable ==
    /\ pc = "file"
    /\ table' = load_device_table(file, schema)
    /\ pc' = "loaded"
    /\ UNCHANGED <<parseState, callState, resampleState, solveState, loopState,
                   file, schema, derived>>

\* the caller passes the table it loaded; the function works on df.copy()
AddDerivedGmidMetrics ==
    /\ pc = "loaded"
    /\ table.exc = "none"
    /\ derived' = add_derived_gmid_metrics(table)
    /\ pc' = "derived"
    /\ UNCHANGED <<parseState, callState, resampleState, solveState, loopState,
                   file, schema, table>>

LookupNext ==
    \/ LoadDeviceTable
    \/ AddDerivedGmidMetrics

SpecLookup == LookupInit /\ [][LookupNext]_vars

(***************************************************************************)
(* Properties of get4d_array                                               *)
(***************************************************************************)
IsSentinelLine(l) == Len(l) > 0 /\ l[1] = Alpha(LengthWord)
\* a line of more than two tokens that is no 'length' line
IsRowLine(l) == Len(l) > MinTokens /\ ~IsSentinelLine(l)
\* such a line of exactly NRows tokens, each a numeric literal or a purely
\* alphabetic label
IsTableRowLine(l) ==
    /\ IsRowLine(l)
    /\ Len(l) = NRows
    /\ \A k \in 1..Len(l) : l[k].cls \in {"num", "alpha"}

\* ls is made of blocks: a 'length' line, NRows lines satisfying RowOk, a
\* blank line; the number of blocks is a multiple of NSlices
MadeOfBlocks(ls, RowOk(_)) ==
    /\ Len(ls) % (BlockLen * NSlices) = 0
    /\ \A n \in 1..Len(ls) :
         LET q == (n - 1) % BlockLen
         IN  IF q = 0 THEN IsSentinelLine(ls[n])
             ELSE IF q <= NRows THEN RowOk(ls[n])
             ELSE Len(ls[n]) = 0

\* the line of the file that holds row r of slice s of grid g (all from 1)
LineNo(g, s, r) == ((g - 1) * NSlices + (s - 1)) * BlockLen + 1 + r

GridsInFileOrder ==
    /\ Len(fourd_array) * NSlices * BlockLen = Len(lines)
    /\ \A g \in 1..Len(fourd_array) :
         /\ Len(fourd_array[g]) = NSlices
         /\ \A s \in 1..NSlices :
              /\ Len(fourd_array[g][s]) = NRows
              /\ \A r \in 1..NRows :
                   fourd_array[g][s][r] = float_vals(lines[LineNo(g, s, r)])

\* the surface is the grid without its first row and first column
SurfaceIsTrimmedGrid ==
    /\ surface.exc = "none"
    /\ Len(surface.val) = NSlices
    /\ \A i \in 1..NSlices :
         /\ Len(surface.val[i]) = NData
         /\ \A j \in 1..NData :
              /\ Len(surface.val[i][j]) = NData
              /\ \A k \in 1..NData :
                   /\ j + 1 <= Len(fourd_array[call.parameter1 + 1][i])
                   /\ k + 1 <= Len(fourd_array[call.parameter1 + 1][i][j + 1])
                   /\ surface.val[i][j][k] = fourd_array[call.parameter1 + 1][i][j + 1][k + 1]

IndividualOfGrid ==
    /\ pc = "called"
    /\ call.fn = "individual"
    /\ call.parameter1 >= 0
    /\ call.parameter1 < Len(fourd_array)

\* C1 as stated: for an input made of P*24 blocks, each a 'length' line, 74
\* lines of more than two tokens and a blank line, get4d_array returns the P
\* grids in file order (24 slices of 74 rows each, in file order), and
\* get_threed_individual of any such grid is the grid without its first row
\* and first column.
C1_AsStated ==
    MadeOfBlocks(lines, IsRowLine) =>
        /\ pc # "raised"
        /\ pc \in {"returned", "called"} => GridsInFileOrder
        /\ IndividualOfGrid => SurfaceIsTrimmedGrid

\* C1 amended: the same, for blocks whose 74 rows each hold exactly 74
\* tokens, every token a numeric literal or a purely alphabetic label.
C1_TableParsedInFileOrder ==
    MadeOfBlocks(lines, IsTableRowLine) =>
        /\ pc # "raised"
        /\ pc \in {"returned", "called"} => GridsInFileOrder
        /\ IndividualOfGrid => SurfaceIsTrimmedGrid

\* two grids were parsed from a well-formed file and the second was trimmed
C1_Witness ==
    /\ MadeOfBlocks(lines, IsTableRowLine)
    /\ Len(fourd_array) = 2
    /\ IndividualOfGrid
    /\ call.parameter1 = 1
    /\ surface.exc = "none"

\* the line of the file a stored row was read from, and the number of
\* 'length' lines down to that line: the block the row belongs to
RowLine(row) == row[1].n \div Stride
BlockOfLine(n) == Cardinality({m \in 1..n : IsSentinelLine(lines[m])})
RowsOfOneBlock(slice) ==
    \A r1, r2 \in 1..Len(slice) :
        BlockOfLine(RowLine(slice[r1])) = BlockOfLine(RowLine(slice[r2]))

\* C2: the loader fails with a format error whenever a length slice has not
\* reached 74 rows when the next 'length' line is read, and never builds a
\* slice out of rows of two different blocks.
C2_FormatErrorOnShortSlice ==
    /\ (\E r \in 1..Len(twod_array) :
            BlockOfLine(RowLine(twod_array[r])) < BlockOfLine(Len(lines)))
         => exc = "FormatError"
    /\ \A s \in 1..Len(threed_array) : RowsOfOneBlock(threed_array[s])
    /\ \A g \in 1..Len(fourd_array) :
         \A s \in 1..Len(fourd_array[g]) : RowsOfOneBlock(fourd_array[g][s])

\* C3: the loader fails with a format error when the input ends with fewer
\* than 24 complete slices for a grid; it never returns a dataset from which
\* trailing rows or slices were left out.
C3_FormatErrorOnIncompleteGrid ==
    (pc = "returned" /\ (twod_array # <<>> \/ threed_array # <<>>))
        => exc = "FormatError"

\* C4: for every data row accepted, a non-numeric token is kept as a string
\* and any other token becomes a float, and accepting the row never raises,
\* whatever the class of its tokens.
StoredAs(tok) == IF tok.cls = "num" THEN FloatOf(tok) ELSE StrOf(tok)
RowStoredByClass(row) ==
    LET line == lines[RowLine(row)]
    IN  /\ Len(row) = Len(line)
        /\ \A k \in 1..Len(row) : row[k] = StoredAs(line[k])
C4_TokensStoredByClass ==
    /\ exc # "ValueError"
    /\ \A r \in 1..Len(twod_array) : RowStoredByClass(twod_array[r])
    /\ \A s \in 1..Len(threed_array) :
         \A r \in 1..Len(threed_array[s]) : RowStoredByClass(threed_array[s][r])

RECURSIVE SumLen(_)
SumLen(seqs) == IF seqs = <<>> THEN 0 ELSE Len(Head(seqs)) + SumLen(Tail(seqs))
\* the rows stored so far: pending, in pending slices, in grids
RowCount ==
    Len(twod_array) + SumLen(threed_array)
    + SumLen([g \in 1..Len(fourd_array) |->
                 [r \in 1..SumLen(fourd_array[g]) |-> 0]])

\* a 'length' line was read since the most recent blank line of ls
SentinelSinceBlank(ls) ==
    \E m \in 1..Len(ls) :
        /\ IsSentinelLine(ls[m])
        /\ \A n \in m..Len(ls) : Len(ls[n]) > 0

\* C21: get4d_array takes a line as a data row if and only if the line is
\* not blank, its first token is not 'length', it has more than two tokens
\* and a 'length' line was read since the most recent blank line; no other
\* line contributes a row.  A line taken as a data row is stored as one
\* row, or its conversion raises.
C21_DataRowIffInsideBlock ==
    [][Len(lines') = Len(lines) + 1 =>
        LET line == lines'[Len(lines')]
        IN  /\ RowCount' \in {RowCount, RowCount + 1}
            /\ (RowCount' = RowCount + 1 \/ pc' = "raised")
                 <=> (/\ Len(line) > 0
                      /\ ~IsSentinelLine(line)
                      /\ Len(line) > 2
                      /\ SentinelSinceBlank(lines))
      ]_vars

\* a line of more than two tokens came right after a blank line and was not
\* stored
C21_Witness ==
    /\ pc = "loop"
    /\ Len(lines) >= 2
    /\ Len(lines[Len(lines) - 1]) = 0
    /\ IsRowLine(lines[Len(lines)])
    /\ twod_array = <<>>
    /\ RowCount > 0

\* rows of a grid (the script's 1776)
GridSize == NRows * NSlices

\* the lines taken as data rows and stored, by line number: the last line
\* read is not among them when its conversion raised
AcceptedLines ==
    {n \in 1..Len(lines) :
        /\ IsRowLine(lines[n])
        /\ SentinelSinceBlank(SubSeq(lines, 1, n - 1))
        /\ ~(pc = "raised" /\ exc = "ValueError" /\ n = Len(lines))}

\* the number, from 0, of line n among the accepted lines
RankOf(n) == Cardinality({m \in AcceptedLines : m < n})

\* the row at grid r div 1776, slice (r mod 1776) div 74, row r mod 74,
\* the grid and the slice under construction included
StoredAt(r) ==
    LET g == r \div GridSize
        sl == (r % GridSize) \div NRows
        j == r % NRows
    IN  IF g < Len(fourd_array) THEN fourd_array[g + 1][sl + 1][j + 1]
        ELSE IF sl < Len(threed_array) THEN threed_array[sl + 1][j + 1]
        ELSE twod_array[j + 1]

\* C27: after each line, 0 <= twod_counter < 74 and 0 <= threed_counter <
\* 24, the pending row list has twod_counter rows and the pending slice
\* list threed_counter slices, every stored slice has 74 rows and every
\* stored grid 24 slices; the r-th accepted row is at grid r div 1776,
\* slice (r mod 1776) div 74, row r mod 74, and the number of grids is
\* (accepted rows) div 1776.
C27_ParserStateInvariant ==
    pc \in {"loop", "returned", "raised"} =>
        /\ twod_counter \in 0..(NRows - 1)
        /\ threed_counter \in 0..(NSlices - 1)
        /\ Len(twod_array) = twod_counter
        /\ Len(threed_array) = threed_counter
        /\ \A sl \in 1..Len(threed_array) : Len(threed_array[sl]) = NRows
        /\ \A g \in 1..Len(fourd_array) :
             /\ Len(fourd_array[g]) = NSlices
             /\ \A sl \in 1..NSlices : Len(fourd_array[g][sl]) = NRows
        /\ Len(fourd_array) = Cardinality(AcceptedLines) \div GridSize
        /\ RowCount = Cardinality(AcceptedLines)
        /\ \A n \in AcceptedLines : StoredAt(RankOf(n)) = float_vals(lines[n])

\* a grid was stored whose first slice holds rows of two blocks, and rows
\* are pending
C27_Witness ==
    /\ pc = "loop"
    /\ Len(fourd_array) = 1
    /\ ~RowsOfOneBlock(fourd_array[1][1])
    /\ twod_counter = 2

(***************************************************************************)
(* Properties of the surface builders                                      *)
(***************************************************************************)
CombinedCalled == pc = "called" /\ call.fn = "combined"
GridA == PyIndex(fourd_array, call.parameter1)
GridB == PyIndex(fourd_array, call.parameter2)
\* the data entries of a grid: every slice, rows and columns 1..73
DataCells == (1..NSlices) \X (1..NData) \X (1..NData)
\* entry [i][j][k] of a raw grid for a data cell c = (i + 1, j, k)
Raw(grid, c) == grid[c[1]][c[2] + 1][c[3] + 1]
\* the quotient of two raw float entries
Quot(a, b) == Ratio(a.n * b.d, a.d * b.n)

C6_ZeroCurrentSubstituted ==
    (/\ CombinedCalled
     /\ call.parameter2 = IdsParam
     /\ call.parameter1 >= 0
     /\ IndexOk(fourd_array, call.parameter1))
    => /\ surface.exc = "none"
       /\ \A c \in DataCells :
            IF Raw(GridB, c).n = 0
            THEN /\ c[3] + 2 <= NRows
                 /\ Raw(GridB, <<c[1], c[2], c[3] + 1>>).n # 0
                 /\ surface.val[c[1]][c[2]][c[3]] =
                        Quot(Raw(GridA, <<c[1], c[2], c[3] + 1>>),
                             Raw(GridB, <<c[1], c[2], c[3] + 1>>))
            ELSE surface.val[c[1]][c[2]][c[3]] = Quot(Raw(GridA, c), Raw(GridB, c))

\* C7: get_threed_individual and get_threed_combined fail with ValueError
\* whenever a requested parameter index is outside 0..(number of grids - 1),
\* negative indices included.
InRange(parameter) == 0 <= parameter /\ parameter < Len(fourd_array)
C7_ValueErrorOutOfRange ==
    /\ (pc = "called" /\ call.fn = "individual" /\ ~InRange(call.parameter1))
         => surface.exc = "ValueError"
    /\ (CombinedCalled /\ (~InRange(call.parameter1) \/ ~InRange(call.parameter2)))
         => surface.exc = "ValueError"

OtherLabels == {FloatOf(Num(0)), StrOf(Alpha(RegionWord))}

\* fourd_arr with the entries of row 0 (rows) and of column 0 (cols) of the
\* given slices of every grid replaced by lab
Relabelled(fourd_arr, slices, rows, cols, lab) ==
    [p \in 1..Len(fourd_arr) |->
      [i \in 1..Len(fourd_arr[p]) |->
        [j \in 1..Len(fourd_arr[p][i]) |->
          [k \in 1..Len(fourd_arr[p][i][j]) |->
             IF i \in slices /\ ((rows /\ j = 1) \/ (cols /\ k = 1))
             THEN lab
             ELSE fourd_arr[p][i][j][k]]]]]

\* C30: the surface returned by get_threed_combined depends only on the
\* data entries [i][j][k] with j >= 1 and k >= 1 of the two grids: a
\* dataset that differs from the one of the call only in the labels of row
\* 0 or of column 0 of any slices gives the same result.
C30_SurfaceIgnoresLabels ==
    CombinedCalled =>
        \A slices \in (SUBSET (1..NSlices)) \ {{}}, lab \in OtherLabels,
           rc \in {<<TRUE, FALSE>>, <<FALSE, TRUE>>, <<TRUE, TRUE>>} :
            get_threed_combined(Relabelled(fourd_array, slices, rc[1], rc[2], lab),
                                call.parameter1, call.parameter2) = surface

\* gm/ID was built from a dataset with a zero current next to the label
\* column, replaced by the quotient of the next column
C30_Witness ==
    /\ CombinedCalled
    /\ call.parameter1 = GmParam
    /\ call.parameter2 = IdsParam
    /\ surface.exc = "none"
    /\ \E c \in DataCells : c[3] = 1 /\ Raw(GridB, c).n = 0

(***************************************************************************)
(* Properties of the resampling                                            *)
(***************************************************************************)
SomeTargetOutside ==
    \E d \in 1..3 : \E m \in 1..Len(i_axes[d]) :
        ~InBounds(points(fourd_array)[d], i_axes[d][m])

\* C8: resampling accepts target points outside the source axis range: for
\* every such point it returns a linearly extrapolated value rather than
\* raising an error.
C8_ExtrapolatesOutsideRange ==
    (pc = "resampled" /\ SomeTargetOutside) => resampled.exc = "none"

\* the labels of column 0 (rows 1..73) and of row 0 (columns 1..73) of the
\* first slice of the first grid
Column0Labels(N_4D_arr) == [j \in 1..NData |-> N_4D_arr[1][1][j + 1][1].n]
Row0Labels(N_4D_arr) == [k \in 1..NData |-> N_4D_arr[1][1][1][k + 1].n]

\* C22: the VGS axis used for resampling is the sequence of labels in
\* column 0 of the first grid's first slice (rows 1..73) and the VDS axis
\* the sequence of labels in row 0 of that slice (columns 1..73), also for
\* a dataset whose row-0 labels differ from its column-0 labels.
C22_AxesFromColumnAndRow ==
    (pc = "resampled" /\ surface.exc = "none") =>
        /\ VGS_ARRAY(fourd_array) = Column0Labels(fourd_array)
        /\ VDS_ARRAY(fourd_array) = Row0Labels(fourd_array)
        /\ resampled = interpn(<<lengths, Column0Labels(fourd_array),
                                 Row0Labels(fourd_array)>>,
                               surface.val, i_axes)

(***************************************************************************)
(* Properties of the length solve                                          *)
(***************************************************************************)
Solved == pc = "solved" /\ solved.exc = "none" /\ ~solved.empty

\* C9: the continuous length of a solve is snapped to the element of
\* i_lengths at minimum absolute distance, the earlier one in ascending
\* order when two are equally distant; the index is a valid index of
\* i_lengths, so the length reported is a member of i_lengths.
C9_SnapNearestFirst ==
    Solved =>
        /\ solved.c_L_index \in 0..(Len(i_lengths) - 1)
        /\ \A k \in 1..Len(i_lengths) :
             /\ Abs(i_lengths[solved.c_L_index + 1] - solved.L_solution)
                    <= Abs(i_lengths[k] - solved.L_solution)
             /\ Abs(i_lengths[k] - solved.L_solution)
                    = Abs(i_lengths[solved.c_L_index + 1] - solved.L_solution)
                  => i_lengths[solved.c_L_index + 1] <= i_lengths[k]

\* a length midway between 400 and 440 was snapped to 400
C9_Witness ==
    /\ Solved
    /\ solved.L_solution = 420
    /\ i_lengths[solved.c_L_index + 1] = 400

\* the points of all segments of a contour, in contour order
RECURSIVE AllPoints(_)
AllPoints(segs) ==
    IF segs = <<>> THEN <<>> ELSE Head(segs) \o AllPoints(Tail(segs))

\* C23: among all points returned by the contour extraction, every point
\* of every segment being a candidate, the solve selects one whose gm/gds
\* coordinate is at minimum absolute distance to the requirement, the first
\* such point in contour order on a tie.
C23_ClosestOfAllPoints ==
    (pc = "solved" /\ allsegs # <<>>) =>
        LET pts == AllPoints(allsegs)
        IN  /\ solved.exc = "none"
            /\ solved.idx_closest \in 0..(Len(pts) - 1)
            /\ solved.L_solution = pts[solved.idx_closest + 1][2]
            /\ \A m \in 1..Len(pts) :
                 /\ Abs(pts[solved.idx_closest + 1][1] - req) <= Abs(pts[m][1] - req)
                 /\ Abs(pts[m][1] - req) = Abs(pts[solved.idx_closest + 1][1] - req)
                      => solved.idx_closest + 1 <= m

(***************************************************************************)
(* Properties of the optimization loop                                     *)
(***************************************************************************)
NoSolutionReported(device, iteration) ==
    \E m \in 1..Len(out) :
        /\ out[m].a = iteration
        /\ \/ device = "M1" /\ out[m].tag = "Warning: No solution found for M1 at iteration"
           \/ device = "M3" /\ out[m].tag = "Warning: No solution found for M3 at iteration"
           \/ device = "M5" /\ out[m].tag = "Warning: No solution found for M5 at iteration"

\* C10: whenever the contour of the solve of M1, M3 or M5 has no points,
\* a no-solution condition is reported for that solve; no solve with an
\* empty contour is passed over silently.
C10_EmptyContourReported ==
    \A s \in skipped : NoSolutionReported(s[1], s[2])

Skipped(iteration) == \E s \in skipped : s[2] = iteration

\* the loop is past iteration x - 1: at the head of the next one or at the
\* report
IterationEnded == pc \in {"M1", "report"} /\ x > 0

\* cOTA and the results of the three devices, without the requirement
\* gm_ids_1 that line 199 assigns before any solve
DeviceResults(r) == <<r[1]>> \o SubSeq(r, 3, Len(r))

\* C11: when a solve of M1, M3 or M5 finds no solution in an iteration, at
\* the end of that iteration cOTA and every device result (length index,
\* width, capacitances, gm/ID of M1, M3 and M5) equal the values they had
\* at its start.  Stated for the iterations after the first, where every
\* name that the iteration found bound had a value to keep.
C11_SkippedIterationLeavesResults ==
    (IterationEnded /\ x > 1 /\ Skipped(x - 1)) =>
        DeviceResults(Results) = DeviceResults(at_start)

SomeUnbound ==
    \/ c_L_index_1 = UnboundIndex
    \/ c_L_index3 = UnboundIndex
    \/ c_L_index5 = UnboundIndex

\* C12: a no-solution makes the run fail exactly when it occurs for some
\* device in the first iteration: the report then meets a name that was
\* never bound (the contour of a device that found nothing in iteration 0
\* is the same in every later iteration); a no-solution in a later
\* iteration only never makes the run fail.
C12_FailsIffNoSolutionInFirstIteration ==
    /\ pc = "report" => (Skipped(0) <=> SomeUnbound)
    /\ (pc = "raised" /\ exc = "NameError") => Skipped(0)
    /\ pc = "reported" => ~Skipped(0)

\* the run failed at the report after a device found no solution in the
\* first iteration
C12_Witness ==
    /\ pc = "raised"
    /\ exc = "NameError"
    /\ x = NIter
    /\ <<"M3", 0>> \in skipped

\* C13: the loop runs exactly 20 iterations whatever the solves give,
\* success or no solution in any combination, and then produces the report.
C13_TwentyIterationsThenReport ==
    (pc \notin {"M1", "M3", "M5"} /\ solved.exc = "none") =>
        /\ x = NIter
        /\ pc \in {"report", "reported"}

\* C14: once the relative change of cOTA across an iteration is below a
\* small tolerance (here: no change at all, of a non-zero estimate), no
\* further iteration is executed.
C14_StopsOnConvergence ==
    (IterationEnded /\ produced.M5 = x - 1 /\ cOTA > 0 /\ cOTA = at_start[1]) =>
        pc = "report"

\* the last iteration in which no solve found no solution
LastUnskipped ==
    CHOOSE i \in 0..(NIter - 1) :
        /\ ~Skipped(i)
        /\ \A j \in (i + 1)..(NIter - 1) : Skipped(j)

\* C15: the report is the result set of one iteration: the reported length,
\* width and gm/ID of M1, M3 and M5 were all produced in the same
\* iteration, the last one in which no solve failed.
C15_ReportOfOneIteration ==
    pc = "reported" =>
        /\ produced.gm_ids_1 = LastUnskipped
        /\ produced.M1 = LastUnskipped
        /\ produced.M3 = LastUnskipped
        /\ produced.M5 = LastUnskipped

MonotoneTechnology ==
    \A k1 \in DOMAIN parasitic_of, k2 \in DOMAIN parasitic_of :
        k1[2] <= k2[2] => parasitic_of[k1] <= parasitic_of[k2]

\* the change of cOTA made by the n-th assignment of line 295
Change(n) == Abs(cOTA_seq[n] - (IF n = 1 THEN 0 ELSE cOTA_seq[n - 1]))

\* C17: for the nominal target on a monotone technology, the change of
\* cOTA between consecutive iterations strictly decreases (until it is 0)
\* and ends below 1% of cOTA within the 20 iterations.
C17_ChangeOfCotaDecreases ==
    (pc = "reported" /\ skipped = {} /\ MonotoneTechnology) =>
        /\ \A n \in 1..(Len(cOTA_seq) - 1) :
             Change(n) > 0 => Change(n + 1) < Change(n)
        /\ 100 * Change(Len(cOTA_seq)) <= cOTA

\* C24: cOTA is 0 when the first iteration starts and is written at most
\* once per iteration, only after the M3 sizing of an iteration in which
\* the M1 and the M3 solve both succeeded, and the value written is
\* cddw3 + cgdw1 + cgsw1/2 of that same iteration's M1 and M3 results.
C24_CotaWrittenAfterM3 ==
    [][/\ (x = 0 /\ pc = "M1") => cOTA = 0
       /\ Len(cOTA_seq') <= x' + 1
       /\ pc' \in {"M1", "M3"} => Len(cOTA_seq') <= x'
       /\ (cOTA' # cOTA \/ cOTA_seq' # cOTA_seq) =>
            /\ pc = "M3" /\ pc' = "M5" /\ x' = x
            /\ Len(cOTA_seq') = Len(cOTA_seq) + 1
            /\ produced'.gm_ids_1 = x /\ produced'.M1 = x /\ produced'.M3 = x
            /\ cgdw1' = Tech("cgdw1", c_L_index_1', gm_ids_1', UnboundIndex)
            /\ cgsw1' = Tech("cgsw1", c_L_index_1', gm_ids_1', UnboundIndex)
            /\ cddw3' = Tech("cddw3", c_L_index3', c_L_index_1', gm_ids_1')
            /\ LET key == <<c_L_index_1', gm_ids_1', c_L_index3'>>
               IN  /\ key \in DOMAIN parasitic_of'
                   /\ cOTA' = parasitic_of'[key]
      ]_vars

\* cOTA was written in the first and in the second iteration
C24_Witness ==
    /\ pc = "M5"
    /\ x = 1
    /\ cOTA_seq = <<1, 2>>
    /\ cOTA = 2

\* C25: cOTA is the only value an iteration takes from earlier
\* iterations: iterations that start with the same cOTA, whatever device
\* results they carry over, make the same solve decisions and assign the
\* same value to every variable they assign.
C25_IterationDependsOnCotaOnly ==
    \A c \in DOMAIN outcome_of : Cardinality(outcome_of[c]) <= 1

\* the second iteration began with the cOTA of the first (0) and with the
\* device results of the first instead of none, and sized the three devices
C25_Witness ==
    /\ pc = "M1"
    /\ x = 2
    /\ cOTA_seq = <<0, 0>>
    /\ produced.M5 = 1
    /\ at_start[3] # UnboundIndex
    /\ 0 \in DOMAIN outcome_of
    /\ Cardinality(outcome_of[0]) = 1

\* C26: the M5 length solve is driven by the conductance relationship of
\* the first two devices: its gm/gds requirement and its contour level are
\* derived from gds5 = 2*gm1/((gm1/(0.013*gm3))-1) and gm5, so that a
\* change of gm1 (of gm_ids_1 = gm1/ids1, from one iteration to the next)
\* changes the inputs of the M5 length solve.
C26_M5SolveFollowsGm1 ==
    [][(x > 0 /\ gm_ids_1' # gm_ids_1) => m5_solve_inputs' # m5_solve_inputs]_vars

\* C28: an M1 failure is absorbing: when the M1 solve finds no solution in
\* an iteration, cOTA and every device result (the gm/ID of M1 included)
\* are as that iteration found them, the M1 solve fails again in the next
\* iteration, and so the report is made from the state reached before the
\* first failing iteration.  Stated for the iterations after the first.
C28_M1FailureAbsorbing ==
    [][(pc \in {"M1", "report"} /\ x > 1 /\ <<"M1", x - 1>> \in skipped) =>
            /\ Results = at_start
            /\ pc = "M1" => <<"M1", x>> \in skipped'
      ]_vars

SkippedBy(device) == \E s \in skipped : s[1] = device

\* C29: the length solves of M3 and M5 do not depend on cOTA or on any M1
\* result: in every iteration that reaches them they have the same
\* window, surfaces and contour level (gm_ids_3 = 15), so each of them
\* succeeds in every iteration with the same length index or fails in
\* every iteration.
C29_M3M5LengthSolvesFixed ==
    [][/\ m3_solve_inputs' = m3_solve_inputs
       /\ m5_solve_inputs' = m5_solve_inputs
       /\ m3_solve_inputs.level = gm_ids_3
       /\ m5_solve_inputs.level = gm_ids_3
       /\ c_L_index3 # UnboundIndex => c_L_index3' = c_L_index3
       /\ c_L_index5 # UnboundIndex => c_L_index5' = c_L_index5
       /\ ~(SkippedBy("M3")' /\ c_L_index3' # UnboundIndex)
       /\ ~(SkippedBy("M5")' /\ c_L_index5' # UnboundIndex)
       /\ (pc = "M3" /\ c_L_index3 # UnboundIndex) => pc' = "M5"
       /\ (pc = "M5" /\ c_L_index5 # UnboundIndex) => produced'.M5 = x
       /\ (pc = "M3" /\ SkippedBy("M3")) => <<"M3", x>> \in skipped'
       /\ (pc = "M5" /\ SkippedBy("M5")) => <<"M5", x>> \in skipped'
      ]_vars

\* M3 and M5 were solved in two iterations that differ in cOTA and in the
\* M1 level
C29_Witness ==
    /\ pc = "M1"
    /\ x = 2
    /\ cOTA_seq = <<1, 2>>
    /\ produced.M3 = 1
    /\ produced.M5 = 1
    /\ c_L_index_1 # c_L_index3

(***************************************************************************)
(* Properties of gmid_lookup_utils.py                                      *)
(***************************************************************************)
Loaded == pc \in {"loaded", "derived"}
\* the file can be tokenized: it has a row and no row is longer than the
\* first
Readable == file # <<>> /\ \A r \in 1..Len(file) : Len(file[r]) <= Len(file[1])
FileColumns == Len(file[1])
\* the rows of the file with every field present and numeric
NumericRows ==
    {r \in 1..Len(file) :
        /\ Len(file[r]) = FileColumns
        /\ \A c \in 1..Len(file[r]) : file[r][c].cls = "num"}

\* C19: without a schema a 7-column file gets the schema with cgg, a
\* 6-column file the schema without, any other column count raises
\* ValueError; with a schema, a file of another column count raises
\* ValueError; a returned table holds, in file order, exactly the rows of
\* the file whose fields are all numeric, so no NaN remains.
C19_LoadDeviceTable ==
    Loaded =>
        /\ ~Readable => IsValueError(table.exc)
        /\ Readable =>
             /\ (schema = NoSchema /\ FileColumns = 7)
                  => (table.exc = "none" /\ table.columns = SCHEMA_WITH_CGG)
             /\ (schema = NoSchema /\ FileColumns = 6)
                  => (table.exc = "none" /\ table.columns = SCHEMA_NO_CGG)
             /\ (schema = NoSchema /\ FileColumns \notin {6, 7})
                  => table.exc = "ValueError"
             /\ (schema # NoSchema /\ FileColumns # Len(schema))
                  => table.exc = "ValueError"
             /\ (schema # NoSchema /\ FileColumns = Len(schema))
                  => (table.exc = "none" /\ table.columns = schema)
        /\ table.exc = "none" =>
             /\ {table.rows[m].index + 1 : m \in 1..Len(table.rows)} = NumericRows
             /\ \A m \in 1..Len(table.rows) :
                  /\ m > 1 => table.rows[m - 1].index < table.rows[m].index
                  /\ table.rows[m].vals =
                        [c \in 1..FileColumns |-> FloatOf(file[table.rows[m].index + 1][c])]

\* a 7-column file loaded without a schema lost its first row, which had a
\* word in it, and kept its second
C19_Witness ==
    /\ pc = "loaded"
    /\ schema = NoSchema
    /\ Len(file) = 2
    /\ Len(file[1]) = 7
    /\ \E c \in 1..7 : file[1][c].cls = "alpha"
    /\ Len(table.rows) = 1
    /\ table.rows[1].index = 1

\* C20: add_derived_gmid_metrics returns exactly the input rows whose id is
\* not 0, in input order, each with gm/id and gds/id appended, and leaves
\* its input as it was; it raises ValueError when gm, gds or id is not a
\* column.
C20_AddDerivedGmidMetrics ==
    [][pc' = "derived" =>
        /\ table' = table
        /\ IF ~({"gm", "gds", "id"} \subseteq ColumnNames(table))
           THEN derived'.exc = "ValueError"
           ELSE LET id == ColumnOf(table, "id")
                    gm == ColumnOf(table, "gm")
                    gds == ColumnOf(table, "gds")
                    kept == {m \in 1..Len(table.rows) : table.rows[m].vals[id].n # 0}
                    width == Len(table.columns)
                IN  /\ derived'.exc = "none"
                    /\ derived'.columns = table.columns \o <<"gm_id", "gds_id">>
                    /\ Len(derived'.rows) = Cardinality(kept)
                    /\ \A m \in 1..Len(derived'.rows) :
                         /\ m > 1 => derived'.rows[m - 1].index < derived'.rows[m].index
                         /\ \E k \in kept :
                              /\ derived'.rows[m].index = table.rows[k].index
                              /\ SubSeq(derived'.rows[m].vals, 1, width) = table.rows[k].vals
                              /\ derived'.rows[m].vals[width + 1].t = "float"
                              /\ derived'.rows[m].vals[width + 1].n * table.rows[k].vals[id].n
                                   = table.rows[k].vals[gm].n * derived'.rows[m].vals[width + 1].d
                              /\ derived'.rows[m].vals[width + 2].t = "float"
                              /\ derived'.rows[m].vals[width + 2].n * table.rows[k].vals[id].n
                                   = table.rows[k].vals[gds].n * derived'.rows[m].vals[width + 2].d
      ]_vars

\* of two rows the one with id = 0 was dropped and the other got its ratios
C20_Witness ==
    /\ pc = "derived"
    /\ derived.exc = "none"
    /\ Len(table.rows) = 2
    /\ Len(derived.rows) = 1
    /\ derived.rows[1].index = 1

====
